---- MODULE Spec2Model ----
(***************************************************************************)
(* X3F to TIFF converter: the conversion pipeline of                       *)
(* PhotoshopCompatibleConverter.convert_x3f_for_photoshop and the batch    *)
(* driver of X3FConverterGUI (Tk main thread plus run_conversion worker    *)
(* threads), together with direct calls of the conversion method (the     *)
(* command-line entry points and importing programs).                      *)
(*                                                                         *)
(* External collaborators are modelled by what the code observes of them:  *)
(*   rawpy     - DecodeOut(f): an error or a pixel buffer, fixed per file; *)
(*   numpy     - Normalize: dtype tests, scaling and astype(uint16);       *)
(*   tifffile  - imwrite stores the buffer at a path or raises; the        *)
(*               readback returns what the path holds or raises;           *)
(*   pathlib   - mkdir(parents, exist_ok) and exists();                    *)
(*   tkinter   - handlers run atomically on the main thread; a disabled    *)
(*               button does not invoke its command.                       *)
(* A pixel buffer is [dtype, vals]; the values of a floating-point buffer  *)
(* are numerators over FDen, those of an integer buffer are the integers.  *)
(* float32 rounding in the 8-bit branch is not represented: the scaling    *)
(* is computed exactly and truncated as astype does.                       *)
(***************************************************************************)
EXTENDS Integers, Sequences, FiniteSets, TLC

\* ------------------------------------------------------------------ bounds
\* Files the file dialog and drag-and-drop offer to the GUI.
NumFiles == 2
\* Files a direct call may name (covers every row of DecoderOutputs).
NumInputs == 6
\* Denominator of floating-point pixel values.
FDen == 4

\* ------------------------------------------------------------------ constants
U16Max == 65535
U8Max == 255

GuiFiles == 1..NumFiles
CliFiles == 1..NumInputs
\* Threads modelled: enough for two run_conversion workers to overlap. A
\* direct call runs on thread 1.
Threads == {1, 2}

NoBuf == [dtype |-> "none", vals |-> <<>>]
NoPath == <<"", 0, "">>

\* ------------------------------------------------------------------ files
\* What rawpy.imread(...).postprocess(...) yields for each input, row by row:
\* a 16-bit buffer, an 8-bit buffer of another shape, a decode error, a float
\* buffer in [0,1], an 8-bit buffer whose maximum is 1, a float buffer whose
\* maximum exceeds 255.
DecoderOutputs ==
    << [dtype |-> "uint16", vals |-> <<0, 300, U16Max>>],
       [dtype |-> "uint8",  vals |-> <<0, 128, U8Max, 7>>],
       [dtype |-> "error",  vals |-> <<>>],
       [dtype |-> "float",  vals |-> <<0, FDen \div 2, FDen>>],
       [dtype |-> "uint8",  vals |-> <<0, 1, 1>>],
       [dtype |-> "float",  vals |-> <<0, 300 * FDen>>] >>

DecodeOut(f) == DecoderOutputs[((f - 1) % Len(DecoderOutputs)) + 1]

\* Path(x3f_path).stem: files 2, 5, ... share the stem of the file before them
\* (img.x3f and img.X3F in one directory).
Stem(f) == IF f % 3 = 2 THEN f - 1 ELSE f

\* Path(x3f_path).parent: all inputs live in one existing directory.
Parent(f) == "in"

\* The input directory exists. An output directory may also be one that does
\* not exist yet: one that mkdir can create and one it cannot (PermissionError).
InitDirs == {"in"}
CreatableDirs == {"out"}
DeniedDirs == {"denied"}

\* Directories askdirectory returns in the GUI runs: an existing directory
\* behaves as None does (mkdir is a no-op) and a creatable one is exercised by
\* the direct calls, so the dialog offers the one that cannot be created.
DialogDirs == DeniedDirs

FormatArgs == {"tiff", "psd", "jpg"}

\* ------------------------------------------------------------------ numpy
RECURSIVE SeqMax(_)
SeqMax(s) == IF s = <<>> THEN 0
             ELSE LET m == SeqMax(Tail(s)) IN IF Head(s) > m THEN Head(s) ELSE m

Den(b) == IF b.dtype = "float" THEN FDen ELSE 1

\* rgb.max() <= 1.0
MaxLeOne(b) == SeqMax(b.vals) <= Den(b)

\* rgb.max() <= 255
MaxLe255(b) == SeqMax(b.vals) <= U8Max * Den(b)

\* C cast of a non-negative value to uint16: truncate, keep the low 16 bits.
AsU16(num, den) == (num \div den) % (U16Max + 1)

\* (rgb * 65535).astype(np.uint16)
ScaleUnit(b) ==
    [dtype |-> "uint16",
     vals |-> [i \in 1..Len(b.vals) |-> AsU16(b.vals[i] * U16Max, Den(b))]]

\* (rgb.astype(np.float32) / 255 * 65535).astype(np.uint16)
Scale8(b) ==
    [dtype |-> "uint16",
     vals |-> [i \in 1..Len(b.vals) |-> AsU16(b.vals[i] * U16Max, U8Max * Den(b))]]

\* The normalisation block. numpy2 is the build: under NumPy >= 2 an integer
\* array times the Python integer 65535 raises OverflowError, under NumPy 1.x
\* value-based casting promotes the product to uint16.
Normalize(b, numpy2) ==
    IF b.dtype # "uint16"
    THEN IF MaxLeOne(b)
         THEN IF b.dtype = "uint8" /\ numpy2
              THEN [ok |-> FALSE, buf |-> b]
              ELSE [ok |-> TRUE, buf |-> ScaleUnit(b)]
         ELSE IF MaxLe255(b)
              THEN [ok |-> TRUE, buf |-> Scale8(b)]
              ELSE [ok |-> TRUE, buf |-> b]
    ELSE [ok |-> TRUE, buf |-> b]

\* ------------------------------------------------------------------ paths
\* output_dir / (x3f_path.stem + extension)
OutputPath(dir, f, fmt) ==
    IF fmt = "tiff" THEN <<dir, Stem(f), "tiff">>
    ELSE IF fmt = "psd" THEN <<dir, Stem(f), "psd">>
    ELSE <<dir, Stem(f), "tiff">>

\* ------------------------------------------------------------------ state
VARIABLES
    mode,              \* "gui": X3FConverterGUI; "direct": the method is called directly
    rawpy_available,   \* PhotoshopCompatibleConverter.rawpy_available
    selected_files,    \* X3FConverterGUI.selected_files
    output_directory,  \* X3FConverterGUI.output_directory ("None" or a directory)
    convert_button,    \* state of X3FConverterGUI.convert_button
    dirs,              \* directories that exist
    fs,                \* output files that exist: records [path, data]
    thr,               \* per thread: position and locals of run_conversion / the caller
    call               \* per thread: the running convert_x3f_for_photoshop call

vars == <<mode, rawpy_available, selected_files, output_directory,
          convert_button, dirs, fs, thr, call>>

gui == <<selected_files, output_directory, convert_button>>

NoCall == [x3f |-> 0, out_dir |-> "None", fmt |-> "tiff", output_path |-> NoPath,
           raw |-> NoBuf, rgb |-> NoBuf, phase |-> "None", error |-> "none",
           wrote |-> FALSE, readback |-> "none", test_data |-> NoBuf]

\* it: files the loop has yielded; failed: "Conversion failed" lines logged.
NoThread == [pc |-> "idle", it |-> 0, total |-> 0, successful |-> 0,
             failed |-> 0, outcome |-> "none"]

\* _check_rawpy has two outcomes; the flag is computed once, at construction.
\* The Convert button is created enabled; update_file_list has not run yet.
Init ==
    /\ mode \in {"gui", "direct"}
    /\ rawpy_available \in BOOLEAN
    /\ selected_files = <<>>
    /\ output_directory = "None"
    /\ convert_button = "normal"
    /\ dirs = InitDirs
    /\ fs = {}
    /\ thr = [t \in Threads |-> NoThread]
    /\ call = [t \in Threads |-> NoCall]

\* ------------------------------------------------------------------ filesystem
Exists(files, p) == \E e \in files : e.path = p
Content(files, p) == (CHOOSE e \in files : e.path = p).data
\* tifffile.imwrite(path, rgb, ...): create or overwrite
Stored(files, p, b) == {e \in files : e.path # p} \cup {[path |-> p, data |-> b]}

\* ------------------------------------------------------------------ convert_x3f_for_photoshop
NewCall(f, d, fmt) ==
    [NoCall EXCEPT !.x3f = f, !.out_dir = d, !.fmt = fmt, !.phase = "Pending"]

\* EnterCall without the capability test.
EnterCall_NoCheck(c) ==
    IF c.out_dir = "None"
    THEN [c EXCEPT !.phase = "Decoding",
                   !.output_path = OutputPath(Parent(c.x3f), c.x3f, c.fmt)]
    ELSE IF c.out_dir \in dirs \cup CreatableDirs
    THEN [c EXCEPT !.phase = "Decoding",
                   !.output_path = OutputPath(c.out_dir, c.x3f, c.fmt)]
    ELSE [c EXCEPT !.phase = "Raised", !.error = "mkdir"]

\* The capability test, output_dir and output_path. mkdir runs before the try
\* block: its exception leaves the function.
EnterCall(c) ==
    IF ~rawpy_available
    THEN [c EXCEPT !.phase = "Failed", !.error = "DependencyMissing"]
    ELSE IF c.out_dir = "None"
    THEN [c EXCEPT !.phase = "Decoding",
                   !.output_path = OutputPath(Parent(c.x3f), c.x3f, c.fmt)]
    ELSE IF c.out_dir \in dirs \cup CreatableDirs
    THEN [c EXCEPT !.phase = "Decoding",
                   !.output_path = OutputPath(c.out_dir, c.x3f, c.fmt)]
    ELSE [c EXCEPT !.phase = "Raised", !.error = "mkdir"]

\* output_dir.mkdir(parents=True, exist_ok=True)
Mkdir(c) ==
    IF rawpy_available /\ c.out_dir \in CreatableDirs
    THEN dirs \cup {c.out_dir} ELSE dirs

Enter(t) ==
    /\ thr[t].pc = "call" /\ call[t].phase = "Pending"
    /\ call' = [call EXCEPT ![t] = EnterCall(call[t])]
    /\ dirs' = Mkdir(call[t])
    /\ UNCHANGED <<mode, rawpy_available, gui, fs, thr>>

\* rawpy.imread and raw.postprocess inside the try block
DecodeStep(c) ==
    IF DecodeOut(c.x3f).dtype = "error"
    THEN [c EXCEPT !.phase = "Failed", !.error = "DecodeError"]
    ELSE [c EXCEPT !.phase = "Normalizing", !.raw = DecodeOut(c.x3f)]

Decode(t) ==
    /\ thr[t].pc = "call" /\ call[t].phase = "Decoding"
    /\ call' = [call EXCEPT ![t] = DecodeStep(call[t])]
    /\ UNCHANGED <<mode, rawpy_available, gui, dirs, fs, thr>>

NormalizeStep(c, numpy2) ==
    LET n == Normalize(c.raw, numpy2) IN
    IF n.ok THEN [c EXCEPT !.phase = "Writing", !.rgb = n.buf]
    ELSE [c EXCEPT !.phase = "Failed", !.error = "OverflowError"]

Normalise(t) ==
    /\ thr[t].pc = "call" /\ call[t].phase = "Normalizing"
    /\ \E numpy2 \in BOOLEAN :
          call' = [call EXCEPT ![t] = NormalizeStep(call[t], numpy2)]
    /\ UNCHANGED <<mode, rawpy_available, gui, dirs, fs, thr>>

\* "Saving as ...": imwrite only for format_type == 'tiff'; ok is whether
\* the environment lets the file be written.
WriteStep(c, ok) ==
    IF c.fmt = "tiff"
    THEN IF ok THEN [c EXCEPT !.phase = "Verifying", !.wrote = TRUE]
         ELSE [c EXCEPT !.phase = "Failed", !.error = "WriteError"]
    ELSE [c EXCEPT !.phase = "Verifying"]

WriteFiles(c, ok) ==
    IF c.fmt = "tiff" /\ ok THEN Stored(fs, c.output_path, c.rgb) ELSE fs

Write(t) ==
    /\ thr[t].pc = "call" /\ call[t].phase = "Writing"
    /\ \E ok \in BOOLEAN :
          /\ call' = [call EXCEPT ![t] = WriteStep(call[t], ok)]
          /\ fs' = WriteFiles(call[t], ok)
    /\ UNCHANGED <<mode, rawpy_available, gui, dirs, thr>>

\* output_path.exists(), then the readback inside its own try block: ioerr is
\* whether the readback raises. Shape and dtype are printed, not compared.
VerifyStep(c, ioerr) ==
    IF Exists(fs, c.output_path)
    THEN IF ioerr
         THEN [c EXCEPT !.phase = "Succeeded", !.readback = "warning"]
         ELSE [c EXCEPT !.phase = "Succeeded", !.readback = "ok",
                        !.test_data = Content(fs, c.output_path)]
    ELSE [c EXCEPT !.phase = "Failed", !.error = "NotCreated"]

Verify(t) ==
    /\ thr[t].pc = "call" /\ call[t].phase = "Verifying"
    /\ \E ioerr \in BOOLEAN :
          call' = [call EXCEPT ![t] = VerifyStep(call[t], ioerr)]
    /\ UNCHANGED <<mode, rawpy_available, gui, dirs, fs, thr>>

\* ------------------------------------------------------------------ direct calls
\* converter.convert_x3f_for_photoshop(x3f_file, output_dir, format_type)
Invoke(f, d, fmt) ==
    /\ mode = "direct" /\ thr[1].pc = "idle"
    /\ thr' = [thr EXCEPT ![1].pc = "call"]
    /\ call' = [call EXCEPT ![1] = NewCall(f, d, fmt)]
    /\ UNCHANGED <<mode, rawpy_available, gui, dirs, fs>>

\* The caller takes the result (or the exception) and goes on.
Return ==
    /\ mode = "direct" /\ thr[1].pc = "call"
    /\ call[1].phase \in {"Succeeded", "Failed", "Raised"}
    /\ thr' = [thr EXCEPT ![1].pc = "idle"]
    /\ call' = [call EXCEPT ![1] = NoCall]
    /\ UNCHANGED <<mode, rawpy_available, gui, dirs, fs>>

\* ------------------------------------------------------------------ GUI handlers
RECURSIVE AppendNew(_, _)
AppendNew(sel, files) ==
    IF files = <<>> THEN sel
    ELSE AppendNew(IF \E i \in 1..Len(sel) : sel[i] = Head(files)
                   THEN sel ELSE Append(sel, Head(files)),
                   Tail(files))

\* update_file_list: the Convert button follows the selection only
update_file_list(sel) == IF sel # <<>> THEN "normal" ELSE "disabled"

select_files(files) ==
    /\ mode = "gui"
    /\ selected_files' = AppendNew(selected_files, files)
    /\ convert_button' = update_file_list(selected_files')
    /\ UNCHANGED <<mode, rawpy_available, output_directory, dirs, fs, thr, call>>

\* 0 stands for a dropped file whose name does not end in .x3f
on_drop(files) ==
    /\ mode = "gui"
    /\ LET x3f_files == SelectSeq(files, LAMBDA f : f # 0) IN
       IF x3f_files # <<>>
       THEN /\ selected_files' = AppendNew(selected_files, x3f_files)
            /\ convert_button' = update_file_list(selected_files')
       ELSE UNCHANGED <<selected_files, convert_button>>
    /\ UNCHANGED <<mode, rawpy_available, output_directory, dirs, fs, thr, call>>

clear_files ==
    /\ mode = "gui"
    /\ selected_files' = <<>>
    /\ convert_button' = update_file_list(selected_files')
    /\ UNCHANGED <<mode, rawpy_available, output_directory, dirs, fs, thr, call>>

RECURSIVE Without(_, _, _)
Without(sel, idx, i) ==
    IF i > Len(sel) THEN <<>>
    ELSE IF i \in idx THEN Without(sel, idx, i + 1)
    ELSE <<sel[i]>> \o Without(sel, idx, i + 1)

remove_selected_files(selected_indices) ==
    /\ mode = "gui"
    /\ selected_indices # {}
    /\ selected_indices \subseteq 1..Len(selected_files)
    /\ selected_files' = Without(selected_files, selected_indices, 1)
    /\ convert_button' = update_file_list(selected_files')
    /\ UNCHANGED <<mode, rawpy_available, output_directory, dirs, fs, thr, call>>

select_output_directory(directory) ==
    /\ mode = "gui"
    /\ output_directory' = directory
    /\ UNCHANGED <<mode, rawpy_available, selected_files, convert_button,
                   dirs, fs, thr, call>>

reset_output_directory ==
    /\ mode = "gui"
    /\ output_directory' = "None"
    /\ UNCHANGED <<mode, rawpy_available, selected_files, convert_button,
                   dirs, fs, thr, call>>

\* Whether start_conversion goes on to start a thread.
StartsWorker == selected_files # <<>> /\ rawpy_available

\* The button's command: a disabled button does not invoke it. The new thread
\* takes the lowest free slot of T.
start_conversion(T) ==
    /\ mode = "gui"
    /\ convert_button = "normal"
    /\ IF ~StartsWorker
       THEN UNCHANGED <<convert_button, thr>>
       ELSE /\ \E t \in T : thr[t].pc = "idle"
            /\ convert_button' = "disabled"
            /\ LET t == CHOOSE u \in T :
                            /\ thr[u].pc = "idle"
                            /\ \A v \in T : thr[v].pc = "idle" => u <= v
               IN thr' = [thr EXCEPT ![t] = [NoThread EXCEPT !.pc = "begin"]]
    /\ UNCHANGED <<mode, rawpy_available, selected_files, output_directory, dirs, fs, call>>

\* ------------------------------------------------------------------ run_conversion
\* The two completion messages: "All {total} files converted successfully!"
\* (showinfo) and "{successful}/{total} files converted successfully."
\* (showwarning).
CompletionMessage(successful, total) ==
    IF successful = total THEN "showinfo_all" ELSE "showwarning_count"

\* successful = 0; total = len(self.selected_files); the loop's iterator
W_Begin(t) ==
    /\ thr[t].pc = "begin"
    /\ thr' = [thr EXCEPT ![t].pc = "loop", ![t].successful = 0, ![t].it = 0,
                          ![t].total = Len(selected_files)]
    /\ UNCHANGED <<mode, rawpy_available, gui, dirs, fs, call>>

\* One step of `for i, x3f_file in enumerate(self.selected_files, 1)`: the list
\* iterator reads the live list; the call takes self.output_directory as it is
\* now and the format of the read-only combobox.
W_Next(t) ==
    /\ thr[t].pc = "loop"
    /\ thr[t].it < Len(selected_files)
    /\ LET x3f_file == selected_files[thr[t].it + 1] IN
       /\ thr' = [thr EXCEPT ![t].pc = "call", ![t].it = @ + 1]
       /\ call' = [call EXCEPT ![t] = NewCall(x3f_file, output_directory, "tiff")]
    /\ UNCHANGED <<mode, rawpy_available, gui, dirs, fs>>

\* The call returns: tally and log line.
W_Return(t) ==
    /\ mode = "gui" /\ thr[t].pc = "call"
    /\ call[t].phase \in {"Succeeded", "Failed"}
    /\ thr' = [thr EXCEPT ![t].pc = "loop",
                          ![t].successful = IF call[t].phase = "Succeeded"
                                            THEN @ + 1 ELSE @,
                          ![t].failed = IF call[t].phase = "Succeeded"
                                        THEN @ ELSE @ + 1]
    /\ call' = [call EXCEPT ![t] = NoCall]
    /\ UNCHANGED <<mode, rawpy_available, gui, dirs, fs>>

\* The loop is exhausted: the completion dialog and status line.
W_Complete(t) ==
    /\ thr[t].pc = "loop"
    /\ thr[t].it >= Len(selected_files)
    /\ thr' = [thr EXCEPT ![t].pc = "dialog",
                          ![t].outcome = CompletionMessage(thr[t].successful, thr[t].total)]
    /\ UNCHANGED <<mode, rawpy_available, gui, dirs, fs, call>>

\* An exception left the call: the except block's error dialog.
W_Except(t) ==
    /\ mode = "gui" /\ thr[t].pc = "call"
    /\ call[t].phase = "Raised"
    /\ thr' = [thr EXCEPT ![t].pc = "dialog", ![t].outcome = "showerror"]
    /\ call' = [call EXCEPT ![t] = NoCall]
    /\ UNCHANGED <<mode, rawpy_available, gui, dirs, fs>>

\* The finally block re-enables the button; the thread ends.
W_Finally(t) ==
    /\ thr[t].pc = "dialog"
    /\ thr' = [thr EXCEPT ![t] = NoThread]
    /\ convert_button' = "normal"
    /\ UNCHANGED <<mode, rawpy_available, selected_files, output_directory,
                   dirs, fs, call>>

\* ------------------------------------------------------------------ specification
Picks == {<<>>} \cup {<<f>> : f \in GuiFiles}
Drops == {<<f>> : f \in GuiFiles \cup {0}}
CallDirs == {"None"} \cup InitDirs \cup CreatableDirs \cup DeniedDirs

Next ==
    \/ \E t \in Threads : Enter(t)
    \/ \E t \in Threads : Decode(t)
    \/ \E t \in Threads : Normalise(t)
    \/ \E t \in Threads : Write(t)
    \/ \E t \in Threads : Verify(t)
    \/ \E f \in CliFiles, d \in CallDirs, fmt \in FormatArgs : Invoke(f, d, fmt)
    \/ Return
    \/ \E files \in Picks : select_files(files)
    \/ \E files \in Drops : on_drop(files)
    \/ clear_files
    \/ \E idx \in SUBSET (1..NumFiles) : remove_selected_files(idx)
    \/ \E d \in DialogDirs : select_output_directory(d)
    \/ reset_output_directory
    \/ start_conversion(Threads)
    \/ \E t \in Threads : W_Begin(t)
    \/ \E t \in Threads : W_Next(t)
    \/ \E t \in Threads : W_Return(t)
    \/ \E t \in Threads : W_Complete(t)
    \/ \E t \in Threads : W_Except(t)
    \/ \E t \in Threads : W_Finally(t)

Spec == Init /\ [][Next]_vars

\* The same program with a single worker slot: a Convert click while a
\* worker runs is not taken.
One == {1}

NextOne ==
    \/ \E t \in One : Enter(t)
    \/ \E t \in One : Decode(t)
    \/ \E t \in One : Normalise(t)
    \/ \E t \in One : Write(t)
    \/ \E t \in One : Verify(t)
    \/ \E f \in CliFiles, d \in CallDirs, fmt \in FormatArgs : Invoke(f, d, fmt)
    \/ Return
    \/ \E files \in Picks : select_files(files)
    \/ \E files \in Drops : on_drop(files)
    \/ clear_files
    \/ \E idx \in SUBSET (1..NumFiles) : remove_selected_files(idx)
    \/ \E d \in DialogDirs : select_output_directory(d)
    \/ reset_output_directory
    \/ start_conversion(One)
    \/ \E t \in One : W_Begin(t)
    \/ \E t \in One : W_Next(t)
    \/ \E t \in One : W_Return(t)
    \/ \E t \in One : W_Complete(t)
    \/ \E t \in One : W_Except(t)
    \/ \E t \in One : W_Finally(t)

SpecOne == Init /\ [][NextOne]_vars

\* ------------------------------------------------------------------ claims
\* C1: when a batch of N = total files ends, run_conversion has called the
\* converter on every one of the N files and reports the tally (N - k)/N,
\* k being the conversions that failed: the final dialog is a tally, the loop
\* yielded N files and successful = N - failed.
C1_TallyOverWholeBatch ==
    \A t \in Threads :
        thr[t].pc = "dialog" =>
            /\ thr[t].outcome # "showerror"
            /\ thr[t].it = thr[t].total
            /\ thr[t].successful = thr[t].total - thr[t].failed

\* C2: every request-level error becomes a False result of the call; no
\* exception of a conversion reaches the batch loop, so no worker ends its
\* batch in the except block.
C2_ErrorsBecomeFalse ==
    \A t \in Threads :
        /\ mode = "gui" => call[t].phase # "Raised"
        /\ thr[t].outcome # "showerror"

\* C3: at most one run_conversion worker is active at any time.
C3_OneWorkerAtATime ==
    mode = "gui" => Cardinality({t \in Threads : thr[t].pc # "idle"}) <= 1

\* The files the loop of worker t will still yield.
WorkLeft(t) == SubSeq(selected_files, thr[t].it + 1, Len(selected_files))
InBatch(t) == thr[t].pc \in {"loop", "call"}

IsPrefix(p, q) == Len(p) <= Len(q) /\ SubSeq(q, 1, Len(p)) = p

\* C4: once a batch has started, no step other than the worker's own loop
\* takes away a file the worker is still to convert: nothing cuts the batch
\* short or skips a file.
C4_BatchRunsToCompletion ==
    [][\A t \in Threads :
          (InBatch(t) /\ thr'[t].pc \in {"loop", "call"} /\ thr'[t].it = thr[t].it)
              => IsPrefix(WorkLeft(t), WorkLeft(t)')]_vars

\* C5: without the decode capability every call fails at once with
\* DependencyMissing, no directory is created, no file is written, and the
\* GUI starts no worker.
C5_NoCapabilityNoEffect ==
    ~rawpy_available =>
        /\ dirs = InitDirs
        /\ fs = {}
        /\ \A t \in Threads :
              /\ call[t].phase \in {"None", "Pending", "Failed"}
              /\ call[t].phase = "Failed" => call[t].error = "DependencyMissing"
              /\ mode = "gui" => thr[t].pc = "idle"

C5_Witness ==
    /\ ~rawpy_available
    /\ mode = "direct"
    /\ call[1].phase = "Failed"
    /\ call[1].out_dir \in CreatableDirs
    /\ call[1].fmt = "tiff"

\* What a call with the selector 'tiff' does once it is past the write step:
\* the path ends in .tiff, the call itself wrote the file and the file holds
\* the normalised buffer; it never ends with "File not created".
BehavesAsTiff(c) ==
    /\ c.output_path = OutputPath(c.output_path[1], c.x3f, "tiff")
    /\ c.phase \in {"Verifying", "Succeeded"} =>
          /\ c.wrote
          /\ Exists(fs, c.output_path)
          /\ Content(fs, c.output_path) = c.rgb
    /\ c.error # "NotCreated"

\* C6: a call with a selector other than 'tiff' behaves as the call with
\* 'tiff' does: same path, same content written, same result.
C6_OtherFormatsAliasTiff ==
    \A t \in Threads :
        (call[t].fmt # "tiff" /\ call[t].output_path # NoPath)
            => BehavesAsTiff(call[t])

\* The normalisation policy as stated: 16-bit unchanged, floating point with
\* maximum <= 1.0 times 65535, otherwise maximum <= 255 times 65535/255.
C7_Policy(b) ==
    IF b.dtype = "uint16" THEN b
    ELSE IF b.dtype = "float" /\ MaxLeOne(b) THEN ScaleUnit(b)
    ELSE IF MaxLe255(b) THEN Scale8(b)
    ELSE b

\* The three classes of decoder output the policy names: 16-bit, floating
\* point in [0,1], 8-bit in [0,255].
C7_InClass(b) ==
    \/ b.dtype = "uint16"
    \/ b.dtype = "float" /\ MaxLeOne(b)
    \/ b.dtype = "uint8" /\ MaxLe255(b)

C8_SucceededAfterWriteAndVerify ==
    \A t \in Threads :
        call[t].phase = "Succeeded" => call[t].wrote /\ call[t].readback # "none"

\* Shape and dtype of a buffer.
Sig(b) == <<b.dtype, Len(b.vals)>>

\* C9: once the write step has produced the file, a failed verification (the
\* readback raised, or shape or dtype read back differ from the written
\* buffer) leaves the result at success and is reported as a warning.
C9_VerificationFailureIsWarning ==
    \A t \in Threads :
        (call[t].wrote /\ call[t].readback # "none") =>
            /\ call[t].phase = "Succeeded"
            /\ (call[t].readback = "ok" /\ Sig(call[t].test_data) # Sig(call[t].rgb))
                  => FALSE

\* The three aggregate cases.
C10_Case(successful, total) ==
    IF successful = total THEN "all"
    ELSE IF successful = 0 THEN "none" ELSE "partial"

\* C10: the completion message shown for one aggregate case is not the
\* message of another case.
C10_ThreeDistinctMessages ==
    \A t \in Threads :
        (thr[t].pc = "dialog" /\ thr[t].outcome # "showerror"
            /\ thr[t].total > 0 /\ thr[t].it = thr[t].total) =>
            \A s \in 0..thr[t].total :
                C10_Case(s, thr[t].total) # C10_Case(thr[t].successful, thr[t].total)
                    => CompletionMessage(s, thr[t].total) # thr[t].outcome

\* A run_conversion worker exists (started and not yet ended).
BatchRunning == \E t \in Threads : thr[t].pc # "idle"

\* C11: in every state of the GUI, from start-up on, the Convert button is
\* enabled only if the selection is non-empty and no batch is running.
C11_ButtonEnabledOnlyWhenReady ==
    (mode = "gui" /\ convert_button = "normal")
        => (selected_files # <<>> /\ ~BatchRunning)

\* C12: a call reports success only if the call itself wrote the file at its
\* output path; a file that was already there never makes it succeed.
C12_SuccessOnlyIfWritten ==
    \A t \in Threads :
        (call[t].phase = "Succeeded" /\ Exists(fs, call[t].output_path))
            => call[t].wrote

====
